---- MODULE Spec2Model ----
(***************************************************************************)
(* WCAG accessibility scanner (scanner.py): file locator, scan dispatcher  *)
(* and JSON report, as a state machine.                                    *)
(*                                                                         *)
(* Text is modelled as a sequence of one-character strings, a path as the  *)
(* sequence of its segments (pathlib's parts), so that substring tests,    *)
(* glob matches, splits and joins are computed and not assumed.            *)
(***************************************************************************)
EXTENDS Integers, Sequences, FiniteSets, TLC

VARIABLES
    pc,              \* position of main / run_scan
    args_mode,       \* --mode argument: "auto", "all" or "affected"
    SCAN_MODE,       \* Config.SCAN_MODE: "None", "all" or "affected"
    github_event,    \* GITHUB_EVENT_NAME
    github_base_ref, \* GITHUB_BASE_REF
    repo_path,       \* Path(Config.REPO_PATH), as parts
    tree,            \* the files of the repository, relative parts, in listing order
    pattern,         \* the extension pattern handed to the locator
    git_diff,        \* what the git diff subprocess does on this run
    mode_chosen,     \* the locator get_affected_files called: "none", "full", "changed"
    located,         \* the list get_affected_files returned
    html_files,      \* run_scan's html_files: located, cut at the file limit
    idx,             \* number of files of html_files whose result is stored
    phase,           \* position of scan_html_file for file idx + 1
    proc,            \* what the automation subprocess did for the current file
    primary,         \* what scan_html_with_puppeteer_axe returned for the current file
    fallback_ran,    \* whether the fallback heuristic ran for the current file
    current,         \* the value scan_html_file returns for the current file
    returned,        \* history: <<key, value>> of every return of scan_html_file
    results,         \* run_scan's results mapping: its items in insertion order
    report_written,  \* whether report.json has been written
    report_json,     \* the text of report.json
    exit_code,       \* process exit code, -1 while running
    repo_name,       \* self.repo_name
    attempts,        \* history: per file of html_files, <<primary scans, fallback scans>> started
    html_written,    \* whether report.html has been written
    report_html,     \* what generate_html_report computed and wrote
    interrupted,     \* whether KeyboardInterrupt reached main
    page_loaded,     \* browser: whether the report's script has run
    fileSections,    \* browser: number of file-section elements of the results div
    currentPage,     \* browser: the script's currentPage
    display,         \* browser: per section, whether style.display is 'block'
    prevBtn_disabled, \* browser: prevBtn.disabled
    nextBtn_disabled, \* browser: nextBtn.disabled
    document,        \* fallback alone: the HTML document, by its construction
    alternative_result, \* fallback alone: what scan_html_with_alternative_method returned
    temp_scripts     \* number of temporary automation scripts lying in the repository directory

browserVars ==
    <<page_loaded, fileSections, currentPage, display, prevBtn_disabled, nextBtn_disabled>>

fallbackVars == <<document, alternative_result>>

reportVars == <<repo_name, html_written, report_html, interrupted>>

vars == <<pc, args_mode, SCAN_MODE, github_event, github_base_ref, repo_path, tree,
          pattern, git_diff, mode_chosen, located, html_files, idx, phase, proc,
          primary, fallback_ran, current, returned, results, report_written,
          report_json, exit_code, attempts, temp_scripts, reportVars, browserVars,
          fallbackVars>>

(***************************************************************************)
(* Text helpers: Python's str operations used by the scanner.              *)
(***************************************************************************)

\* s[i..] starts with sub
StartsAt(sub, s, i) ==
    /\ i + Len(sub) - 1 <= Len(s)
    /\ \A k \in 1..Len(sub) : s[i + k - 1] = sub[k]

\* Python's `sub in s` for two strings
Contains(sub, s) ==
    \E i \in 1..(Len(s) + 1) : StartsAt(sub, s, i)

RECURSIVE GlobMatch(_, _, _, _)
\* fnmatch.fnmatch(s, p) for patterns of literal characters, '*' and '?'
GlobMatch(p, i, s, j) ==
    IF i > Len(p) THEN j > Len(s)
    ELSE IF p[i] = "*"
         THEN GlobMatch(p, i + 1, s, j) \/ (j <= Len(s) /\ GlobMatch(p, i, s, j + 1))
    ELSE IF p[i] = "?"
         THEN j <= Len(s) /\ GlobMatch(p, i + 1, s, j + 1)
    ELSE j <= Len(s) /\ s[j] = p[i] /\ GlobMatch(p, i + 1, s, j + 1)

fnmatch(name, pat) == GlobMatch(pat, 1, name, 1)

RECURSIVE SplitFrom(_, _, _)
\* str.split(sep): the pieces of s from position i on, cut at each next
\* occurrence of sep
SplitFrom(s, sep, i) ==
    LET hits == {j \in i..Len(s) : StartsAt(sep, s, j)}
    IN  IF hits = {} THEN <<SubSeq(s, i, Len(s))>>
        ELSE LET j == CHOOSE h \in hits : \A g \in hits : h <= g
             IN  <<SubSeq(s, i, j - 1)>> \o SplitFrom(s, sep, j + Len(sep))

Split(s, sep) == SplitFrom(s, sep, 1)

RECURSIVE Join(_, _)
\* sep.join(parts)
Join(parts, sep) ==
    IF Len(parts) = 0 THEN <<>>
    ELSE IF Len(parts) = 1 THEN parts[1]
    ELSE parts[1] \o <<sep>> \o Join(Tail(parts), sep)

\* str(path) for a pathlib.Path given by its parts (an absolute path starts with "/")
PathStr(parts) ==
    IF Len(parts) > 0 /\ parts[1] = <<"/">>
    THEN <<"/">> \o Join(Tail(parts), "/")
    ELSE Join(parts, "/")

\* Path(base) / text: the segments of text, without empty and "." segments
PathJoin(base, text) ==
    base \o SelectSeq(Split(text, <<"/">>), LAMBDA seg : seg # <<>> /\ seg # <<".">>)

\* path.relative_to(base), for base a prefix of path
RelativeTo(path, base) == SubSeq(path, Len(base) + 1, Len(path))

IsPrefix(d, f) == Len(d) <= Len(f) /\ SubSeq(f, 1, Len(d)) = d

Range(s) == {s[i] : i \in 1..Len(s)}

(***************************************************************************)
(* Config                                                                  *)
(***************************************************************************)

EXCLUDE_DIRS ==
    << <<"n","o","d","e","_","m","o","d","u","l","e","s">>,
       <<"d","i","s","t">>,
       <<"b","u","i","l","d">>,
       <<"w","w","w">>,
       <<".","g","i","t">>,
       <<"c","o","v","e","r","a","g","e">>,
       <<".","a","n","g","u","l","a","r">>,
       <<"i","o","s">>,
       <<"a","n","d","r","o","i","d">>,
       <<"p","l","a","t","f","o","r","m","s">>,
       <<"P","o","d","s">>,
       <<"D","e","r","i","v","e","d","D","a","t","a">>,
       <<".","i","d","e","a">>,
       <<".","v","s","c","o","d","e">> >>

EXCLUDE_FILE_PATTERNS ==
    << <<"*",".","d",".","t","s">>,
       <<"*",".","s","p","e","c",".","t","s">>,
       <<"*",".","t","e","s","t",".","t","s">>,
       <<"*",".","m","o","c","k",".","t","s">>,
       <<"*",".","d","a","t","a",".","t","s">> >>

FILE_LIMITS_html == 1000

(***************************************************************************)
(* File locator                                                            *)
(***************************************************************************)

\* should_exclude_file with the two exclusion lists as parameters
ShouldExcludeWith(patterns, dirs, file_path) ==
    LET filename == file_path[Len(file_path)]
    IN  \/ \E k \in 1..Len(patterns) : fnmatch(filename, patterns[k])
        \/ \E p \in 1..Len(file_path) : file_path[p] \in Range(dirs)

\* mutant: the directory test forgotten
should_exclude_file_PatternsOnly(file_path) ==
    ShouldExcludeWith(EXCLUDE_FILE_PATTERNS, <<>>, file_path)

should_exclude_file(file_path) ==
    ShouldExcludeWith(EXCLUDE_FILE_PATTERNS, EXCLUDE_DIRS, file_path)

\* filenames of os.walk at directory d (relative parts), in listing order
WalkFiles(t, d) ==
    SelectSeq(t, LAMBDA f : Len(f) = Len(d) + 1 /\ IsPrefix(d, f))

\* dirs of os.walk at directory d: the distinct next segments, in listing order
DirNames(t, d) ==
    LET below == SelectSeq(t, LAMBDA f : Len(f) > Len(d) + 1 /\ IsPrefix(d, f))
        names == [k \in 1..Len(below) |-> below[k][Len(d) + 1]]
        first == SelectSeq([k \in 1..Len(names) |-> k],
                           LAMBDA k : \A j \in 1..(k - 1) : names[j] # names[k])
    IN  [k \in 1..Len(first) |-> names[first[k]]]

\* line 114: the directories os.walk descends into below root
KeptDirs(root, dirs) ==
    SelectSeq(dirs, LAMBDA dn :
        /\ dn \notin Range(EXCLUDE_DIRS)
        /\ ~ \E k \in 1..Len(EXCLUDE_DIRS) : Contains(EXCLUDE_DIRS[k], PathStr(root)))

RECURSIVE Walk(_, _, _, _)
RECURSIVE WalkDirs(_, _, _, _, _)
\* find_files' loop over os.walk(top), top-down, from directory d
Walk(top, t, d, pat) ==
    LET root == top \o d
        here == SelectSeq(WalkFiles(t, d), LAMBDA f :
                    /\ fnmatch(f[Len(f)], <<"*">> \o pat)
                    /\ ~ should_exclude_file(top \o f))
        kept == KeptDirs(root, DirNames(t, d))
    IN  [k \in 1..Len(here) |-> top \o here[k]] \o WalkDirs(top, t, d, pat, kept)

WalkDirs(top, t, d, pat, names) ==
    IF Len(names) = 0 THEN <<>>
    ELSE Walk(top, t, Append(d, Head(names)), pat) \o WalkDirs(top, t, d, pat, Tail(names))

find_files(top, t, pat) == Walk(top, t, <<>>, pat)

\* full_path.exists(): a file of the tree or a directory above one
Exists(top, t, full_path) ==
    LET rel == RelativeTo(full_path, top)
    IN  \E k \in 1..Len(t) : IsPrefix(rel, t[k])

\* mutant: a failed git diff gives no files instead of the full scan
get_changed_files_NoFallback(top, t, pat, d) ==
    IF d.kind # "exit" \/ d.returncode # 0 THEN <<>>
    ELSE LET matching == SelectSeq(d.stdout, LAMBDA file_path :
                 /\ file_path # <<>>
                 /\ fnmatch(file_path, <<"*">> \o pat)
                 /\ Exists(top, t, PathJoin(top, file_path))
                 /\ ~ should_exclude_file(PathJoin(top, file_path)))
         IN  [k \in 1..Len(matching) |-> PathJoin(top, matching[k])]

\* get_changed_files: d is the outcome of the git diff subprocess
get_changed_files(top, t, pat, d) ==
    IF d.kind # "exit" THEN find_files(top, t, pat)
    ELSE IF d.returncode # 0 THEN find_files(top, t, pat)
    ELSE LET changed_files == d.stdout
             matching == SelectSeq(changed_files, LAMBDA file_path :
                 /\ file_path # <<>>
                 /\ fnmatch(file_path, <<"*">> \o pat)
                 /\ Exists(top, t, PathJoin(top, file_path))
                 /\ ~ should_exclude_file(PathJoin(top, file_path)))
         IN  [k \in 1..Len(matching) |-> PathJoin(top, matching[k])]

\* mutant: the environment is consulted before the override
AffectedMode_EnvironmentFirst(scan_mode, event, base_ref) ==
    IF event = "pull_request" THEN "changed"
    ELSE IF event = "push" /\ base_ref \in {"main", "master"} THEN "full"
    ELSE IF scan_mode = "all" THEN "full"
    ELSE IF scan_mode = "affected" THEN "changed"
    ELSE "full"

\* the branch get_affected_files takes: which locator it calls
AffectedMode(scan_mode, event, base_ref) ==
    IF scan_mode = "all" THEN "full"
    ELSE IF scan_mode = "affected" THEN "changed"
    ELSE IF event = "pull_request" THEN "changed"
    ELSE IF event = "push" /\ base_ref \in {"main", "master"} THEN "full"
    ELSE "full"

get_affected_files(top, t, pat, scan_mode, event, base_ref, d) ==
    IF AffectedMode(scan_mode, event, base_ref) = "changed"
    THEN get_changed_files(top, t, pat, d)
    ELSE find_files(top, t, pat)

(***************************************************************************)
(* String literals of scanner.py                                           *)
(***************************************************************************)

\* dict keys of scan results
Key ==
    [error |-> <<"e","r","r","o","r">>,
     stack |-> <<"s","t","a","c","k">>,
     violations |-> <<"v","i","o","l","a","t","i","o","n","s">>,
     passes |-> <<"p","a","s","s","e","s">>,
     incomplete |-> <<"i","n","c","o","m","p","l","e","t","e">>,
     inapplicable |-> <<"i","n","a","p","p","l","i","c","a","b","l","e">>,
     timestamp |-> <<"t","i","m","e","s","t","a","m","p">>,
     url |-> <<"u","r","l">>,
     id |-> <<"i","d">>,
     impact |-> <<"i","m","p","a","c","t">>,
     help |-> <<"h","e","l","p">>,
     helpUrl |-> <<"h","e","l","p","U","r","l">>,
     nodes |-> <<"n","o","d","e","s">>,
     html |-> <<"h","t","m","l">>,
     target |-> <<"t","a","r","g","e","t">>]

\* the fallback's rule ids, impacts, help texts and help URLs (lines 291-344)
RuleStr ==
    [image_alt |-> <<"i","m","a","g","e","-","a","l","t">>,
     critical |-> <<"c","r","i","t","i","c","a","l">>,
     serious |-> <<"s","e","r","i","o","u","s">>,
     label |-> <<"l","a","b","e","l">>,
     html_has_lang |-> <<"h","t","m","l","-","h","a","s","-","l","a","n","g">>,
     document_title |-> <<"d","o","c","u","m","e","n","t","-","t","i","t","l","e">>,
     help_image_alt |-> <<"I","m","a","g","e","s"," ","m","u","s","t"," ","h","a","v","e"," ","a","l","t","e","r","n","a","t","e"," ","t","e","x","t">>,
     url_image_alt |-> <<"h","t","t","p","s",":","/","/","d","e","q","u","e","u","n","i","v","e","r","s","i","t","y",".","c","o","m","/","r","u","l","e","s","/","a","x","e","/","4",".","7","/","i","m","a","g","e","-","a","l","t">>,
     help_label |-> <<"F","o","r","m"," ","e","l","e","m","e","n","t","s"," ","m","u","s","t"," ","h","a","v","e"," ","l","a","b","e","l","s">>,
     url_label |-> <<"h","t","t","p","s",":","/","/","d","e","q","u","e","u","n","i","v","e","r","s","i","t","y",".","c","o","m","/","r","u","l","e","s","/","a","x","e","/","4",".","7","/","l","a","b","e","l">>,
     help_html_has_lang |-> <<"<","h","t","m","l",">"," ","e","l","e","m","e","n","t"," ","m","u","s","t"," ","h","a","v","e"," ","a"," ","l","a","n","g"," ","a","t","t","r","i","b","u","t","e">>,
     url_html_has_lang |-> <<"h","t","t","p","s",":","/","/","d","e","q","u","e","u","n","i","v","e","r","s","i","t","y",".","c","o","m","/","r","u","l","e","s","/","a","x","e","/","4",".","7","/","h","t","m","l","-","h","a","s","-","l","a","n","g">>,
     help_document_title |-> <<"D","o","c","u","m","e","n","t","s"," ","m","u","s","t"," ","h","a","v","e"," ","a"," ","t","i","t","l","e"," ","e","l","e","m","e","n","t">>,
     url_document_title |-> <<"h","t","t","p","s",":","/","/","d","e","q","u","e","u","n","i","v","e","r","s","i","t","y",".","c","o","m","/","r","u","l","e","s","/","a","x","e","/","4",".","7","/","d","o","c","u","m","e","n","t","-","t","i","t","l","e">>]

\* the error messages of the scan methods (lines 264-276, 356)
Msg ==
    [invalid_json |-> <<"I","n","v","a","l","i","d"," ","J","S","O","N"," ","o","u","t","p","u","t"," ","f","o","r"," ">>,
     puppeteer_error |-> <<"P","u","p","p","e","t","e","e","r"," ","e","r","r","o","r"," ","f","o","r"," ">>,
     timeout_a |-> <<"T","i","m","e","o","u","t"," ","a","f","t","e","r"," ">>,
     timeout_b |-> <<" ","s","e","c","o","n","d","s"," ","f","o","r"," ">>,
     exception |-> <<"E","x","c","e","p","t","i","o","n"," ","f","o","r"," ">>]

\* the substrings the fallback searches for and the markup it reports
Needle ==
    [img |-> <<"<","i","m","g">>,
     alt1 |-> <<" ","a","l","t","=">>,
     alt2 |-> <<" ","a","l","t"," ","=">>,
     input |-> <<"<","i","n","p","u","t">>,
     select |-> <<"<","s","e","l","e","c","t">>,
     textarea |-> <<"<","t","e","x","t","a","r","e","a">>,
     id |-> <<" ","i","d","=">>,
     for |-> <<" ","f","o","r","=">>,
     aria |-> <<" ","a","r","i","a","-","l","a","b","e","l","=">>,
     html |-> <<"<","h","t","m","l">>,
     lang1 |-> <<" ","l","a","n","g","=">>,
     lang2 |-> <<" ","l","a","n","g"," ","=">>,
     title |-> <<"<","t","i","t","l","e",">">>,
     html_tag |-> <<"<","h","t","m","l",">">>,
     head_tag |-> <<"<","h","e","a","d",">">>,
     file_url |-> <<"f","i","l","e",":","/","/">>,
     nth_open |-> <<":","n","t","h","-","o","f","-","t","y","p","e","(">>]

(***************************************************************************)
(* Python values and JSON text.                                            *)
(* A value is a pair <<tag, payload>>; a dict is the sequence of its       *)
(* <<key, value>> items in insertion order.  JSON text is a sequence of    *)
(* tokens: punctuation, scalar literals, whitespace, and non-JSON text.    *)
(***************************************************************************)

JNull == <<"null", <<>>>>
JBool(b) == <<"bool", b>>
JNum(n) == <<"num", n>>
JStr(s) == <<"str", s>>
JArr(items) == <<"arr", items>>
JObj(items) == <<"obj", items>>

Tag(x) == x[1]
Val(x) == x[2]

Punct(c) == <<"p", c>>
Lit(x) == <<"lit", x>>
Ws == <<"ws", " ">>
Junk(s) == <<"junk", s>>

\* key in d, for a dict given by its items
HasKey(items, key) == \E k \in 1..Len(items) : items[k][1] = key

\* d.get(key, default)
DictGet(items, key, default) ==
    IF HasKey(items, key)
    THEN items[CHOOSE k \in 1..Len(items) : items[k][1] = key][2]
    ELSE default

\* d[key] = value: an existing key keeps its place
DictSet(items, key, value) ==
    IF HasKey(items, key)
    THEN [k \in 1..Len(items) |-> IF items[k][1] = key THEN <<key, value>> ELSE items[k]]
    ELSE Append(items, <<key, value>>)

\* the dict left by the assignments d[key] = value made in the order of pairs:
\* keys in the order of their first assignment, each with its last value
DictFromPairs(pairs) ==
    LET first == SelectSeq([k \in 1..Len(pairs) |-> k],
                           LAMBDA k : \A j \in 1..(k - 1) : pairs[j][1] # pairs[k][1])
        last(key) == CHOOSE k \in 1..Len(pairs) :
                         /\ pairs[k][1] = key
                         /\ \A j \in (k + 1)..Len(pairs) : pairs[j][1] # key
    IN  [i \in 1..Len(first) |->
            <<pairs[first[i]][1], pairs[last(pairs[first[i]][1])][2]>>]

RECURSIVE SkipWs(_, _)
SkipWs(ts, i) ==
    IF i <= Len(ts) /\ ts[i][1] = "ws" THEN SkipWs(ts, i + 1) ELSE i

\* str.strip() of a text: without its leading and trailing whitespace
RECURSIVE StripRight(_)
StripRight(ts) ==
    IF Len(ts) > 0 /\ ts[Len(ts)][1] = "ws" THEN StripRight(SubSeq(ts, 1, Len(ts) - 1)) ELSE ts

Strip(ts) == StripRight(SubSeq(ts, SkipWs(ts, 1), Len(ts)))

ParseFail == <<FALSE, JNull, 0>>

RECURSIVE ParseValue(_, _)
RECURSIVE ParseElems(_, _, _)
RECURSIVE ParseMembers(_, _, _)
\* the JSON decoder at token i: <<ok, value, next index>>
ParseValue(ts, i) ==
    LET j == SkipWs(ts, i)
    IN  IF j > Len(ts) THEN ParseFail
        ELSE IF ts[j][1] = "lit" THEN <<TRUE, ts[j][2], j + 1>>
        ELSE IF ts[j] = Punct("[")
             THEN LET k == SkipWs(ts, j + 1)
                  IN  IF k <= Len(ts) /\ ts[k] = Punct("]")
                      THEN <<TRUE, JArr(<<>>), k + 1>>
                      ELSE ParseElems(ts, j + 1, <<>>)
        ELSE IF ts[j] = Punct("{")
             THEN LET k == SkipWs(ts, j + 1)
                  IN  IF k <= Len(ts) /\ ts[k] = Punct("}")
                      THEN <<TRUE, JObj(<<>>), k + 1>>
                      ELSE ParseMembers(ts, j + 1, <<>>)
        ELSE ParseFail

ParseElems(ts, i, acc) ==
    LET r == ParseValue(ts, i)
        k == SkipWs(ts, r[3])
    IN  IF ~ r[1] \/ k > Len(ts) THEN ParseFail
        ELSE IF ts[k] = Punct(",") THEN ParseElems(ts, k + 1, Append(acc, r[2]))
        ELSE IF ts[k] = Punct("]") THEN <<TRUE, JArr(Append(acc, r[2])), k + 1>>
        ELSE ParseFail

ParseMembers(ts, i, acc) ==
    LET j == SkipWs(ts, i)
        c == SkipWs(ts, j + 1)
    IN  IF j > Len(ts) \/ c > Len(ts) THEN ParseFail
        ELSE IF ts[j][1] # "lit" THEN ParseFail
        ELSE IF Tag(ts[j][2]) # "str" \/ ts[c] # Punct(":") THEN ParseFail
        ELSE LET r == ParseValue(ts, c + 1)
                 k == SkipWs(ts, r[3])
                 items == DictSet(acc, Val(ts[j][2]), r[2])
             IN  IF ~ r[1] \/ k > Len(ts) THEN ParseFail
                 ELSE IF ts[k] = Punct(",") THEN ParseMembers(ts, k + 1, items)
                 ELSE IF ts[k] = Punct("}") THEN <<TRUE, JObj(items), k + 1>>
                 ELSE ParseFail

\* json.loads(text): <<ok, value>>; ok is FALSE where it raises JSONDecodeError
json_loads(ts) ==
    LET r == ParseValue(ts, 1)
    IN  IF r[1] /\ SkipWs(ts, r[3]) > Len(ts) THEN <<TRUE, r[2]>> ELSE <<FALSE, JNull>>

RECURSIVE DumpValue(_, _)
RECURSIVE DumpItems(_, _, _, _)
RECURSIVE DumpMembers(_, _, _, _)
\* the JSON encoder; pretty is TRUE for json.dump(..., indent=2), FALSE for the
\* compact text JSON.stringify prints
DumpValue(x, pretty) ==
    IF Tag(x) = "arr"
    THEN IF Len(Val(x)) = 0 THEN <<Punct("["), Punct("]")>>
         ELSE <<Punct("[")>> \o DumpItems(Val(x), 1, Len(Val(x)), pretty) \o <<Punct("]")>>
    ELSE IF Tag(x) = "obj"
    THEN IF Len(Val(x)) = 0 THEN <<Punct("{"), Punct("}")>>
         ELSE <<Punct("{")>> \o DumpMembers(Val(x), 1, Len(Val(x)), pretty) \o <<Punct("}")>>
    ELSE <<Lit(x)>>

\* the text of list entries lo..hi, each with its separators
DumpItems(items, lo, hi, pretty) ==
    LET sepBefore == IF pretty THEN <<Ws>> ELSE <<>>
        sepAfter == IF lo < Len(items) THEN <<Punct(",")>>
                    ELSE IF pretty THEN <<Ws>> ELSE <<>>
        mid == (lo + hi) \div 2
    IN  IF lo = hi
        THEN sepBefore \o DumpValue(items[lo], pretty) \o sepAfter
        ELSE DumpItems(items, lo, mid, pretty) \o DumpItems(items, mid + 1, hi, pretty)

\* the text of dict items lo..hi, each with its separators
DumpMembers(items, lo, hi, pretty) ==
    LET sepBefore == IF pretty THEN <<Ws>> ELSE <<>>
        colon == IF pretty THEN <<Punct(":"), Ws>> ELSE <<Punct(":")>>
        sepAfter == IF lo < Len(items) THEN <<Punct(",")>>
                    ELSE IF pretty THEN <<Ws>> ELSE <<>>
        mid == (lo + hi) \div 2
    IN  IF lo = hi
        THEN sepBefore \o <<Lit(JStr(items[lo][1]))>> \o colon
             \o DumpValue(items[lo][2], pretty) \o sepAfter
        ELSE DumpMembers(items, lo, mid, pretty) \o DumpMembers(items, mid + 1, hi, pretty)

json_dump(x) == DumpValue(x, TRUE)

\* console.log(JSON.stringify(x)): compact text and a line end
Stringify(x) == Append(DumpValue(x, FALSE), Ws)

Digits == <<"0","1","2","3","4","5","6","7","8","9">>

RECURSIVE IntStr(_)
\* str(n) for n >= 0
IntStr(n) == IF n < 10 THEN <<Digits[n + 1]>> ELSE Append(IntStr(n \div 10), Digits[(n % 10) + 1])

RECURSIVE TextOf(_)
\* the characters of a text given by its tokens
TextOf(ts) ==
    IF Len(ts) = 0 THEN <<>>
    ELSE LET tk == Head(ts)
             chars == IF tk[1] \in {"p", "ws"} THEN <<tk[2]>>
                      ELSE IF tk[1] = "junk" THEN tk[2]
                      ELSE IF Tag(tk[2]) = "str" THEN <<"\"">> \o Val(tk[2]) \o <<"\"">>
                      ELSE IF Tag(tk[2]) = "num" THEN IntStr(Val(tk[2]))
                      ELSE IF Tag(tk[2]) = "bool"
                           THEN (IF Val(tk[2]) THEN <<"t","r","u","e">> ELSE <<"f","a","l","s","e">>)
                      ELSE <<"n","u","l","l">>
         IN  chars \o TextOf(Tail(ts))

\* Python's `"error" in x`: <<raises TypeError, answer>>
InError(x) ==
    IF Tag(x) = "obj" THEN <<FALSE, HasKey(Val(x), Key.error)>>
    ELSE IF Tag(x) = "arr" THEN <<FALSE, \E k \in 1..Len(Val(x)) : Val(x)[k] = JStr(Key.error)>>
    ELSE IF Tag(x) = "str" THEN <<FALSE, Contains(Key.error, Val(x))>>
    ELSE <<TRUE, FALSE>>

(***************************************************************************)
(* Scan dispatcher                                                         *)
(***************************************************************************)

TIMEOUT_PER_FILE == 120

\* the clock reading time.strftime formats (one representative reading)
Timestamp == <<"2","0","2","5","-","0","1","-","0","1"," ","0","0",":","0","0",":","0","0">>

\* mutant: the error outcome under another key
ErrorResult_OtherKey(message) == JObj(<< <<Key.stack, JStr(message)>> >>)

ErrorResult(message) == JObj(<< <<Key.error, JStr(message)>> >>)

FileName(html_file) == html_file[Len(html_file)]

\* lines 242-245: NamedTemporaryFile(delete=False, dir=temp_dir) created the script
ScriptWritten(p) == p.kind # "write_error"

\* lines 248-253: os.unlink(script_path) follows subprocess.run in the try block
\* and runs only when subprocess.run returned a completed process
ScriptUnlinked(p) == p.kind = "exit"

\* the scripts one call of scan_html_with_puppeteer_axe leaves in the repository
ScriptsLeft(p) == IF ScriptWritten(p) /\ ~ ScriptUnlinked(p) THEN 1 ELSE 0

\* scan_html_with_puppeteer_axe: p is what writing the script and running node did
scan_html_with_puppeteer_axe(html_file, p) ==
    LET name == FileName(html_file)
    IN  IF p.kind = "timeout"
        THEN ErrorResult(Msg.timeout_a \o IntStr(TIMEOUT_PER_FILE) \o Msg.timeout_b \o name)
        ELSE IF p.kind # "exit"
        THEN ErrorResult(Msg.exception \o name \o <<":"," ">> \o p.message)
        ELSE IF p.returncode = 0 /\ Strip(p.stdout) # <<>>
        THEN LET parsed == json_loads(p.stdout)
             IN  IF parsed[1] THEN parsed[2]
                 ELSE ErrorResult(Msg.invalid_json \o name \o <<":"," ">> \o TextOf(p.stdout))
        ELSE LET error_msg == IF p.stderr # <<>> THEN p.stderr ELSE p.stdout
                 error_data == json_loads(error_msg)
             IN  IF error_data[1] /\ Tag(error_data[2]) = "obj"
                 THEN JObj(<< <<Key.error,
                                DictGet(Val(error_data[2]), Key.error, JStr(TextOf(error_msg)))>> >>)
                 ELSE ErrorResult(Msg.puppeteer_error \o name \o <<":"," ">> \o TextOf(error_msg))

\* one entry of the fallback's violations list
Violation(id, impact, help, helpUrl, html, target) ==
    JObj(<< <<Key.id, JStr(id)>>,
            <<Key.impact, JStr(impact)>>,
            <<Key.help, JStr(help)>>,
            <<Key.helpUrl, JStr(helpUrl)>>,
            <<Key.nodes, JArr(<< JObj(<< <<Key.html, JStr(html)>>,
                                       <<Key.target, JArr(<<JStr(target)>>)>> >>) >>)>> >>)

\* lines 288-300: one image-alt violation per '<img' piece without an alt attribute
ImageAltViolations(content) ==
    LET img_tags == Tail(Split(content, Needle.img))
        hit(i) == ~ Contains(Needle.alt1, img_tags[i]) /\ ~ Contains(Needle.alt2, img_tags[i])
        one(i) == Violation(RuleStr.image_alt, RuleStr.critical, RuleStr.help_image_alt, RuleStr.url_image_alt,
                      Needle.img \o Split(img_tags[i], <<">">>)[1] \o <<">">>,
                      <<"i","m","g">> \o Needle.nth_open \o IntStr(i) \o <<")">>)
        idxs == SelectSeq([i \in 1..Len(img_tags) |-> i], hit)
    IN  [k \in 1..Len(idxs) |-> one(idxs[k])]

\* lines 304-318, for one of '<input', '<select', '<textarea'
LabelViolations(content, element) ==
    IF ~ Contains(element, content) THEN <<>>
    ELSE LET element_tags == Tail(Split(content, element))
             hit(i) == /\ (~ Contains(Needle.id, element_tags[i]) \/ ~ Contains(Needle.for, content))
                       /\ ~ Contains(Needle.aria, element_tags[i])
             one(i) == Violation(RuleStr.label, RuleStr.serious, RuleStr.help_label, RuleStr.url_label,
                           element \o Split(element_tags[i], <<">">>)[1] \o <<">">>,
                           Tail(element) \o Needle.nth_open \o IntStr(i) \o <<")">>)
             idxs == SelectSeq([i \in 1..Len(element_tags) |-> i], hit)
         IN  [k \in 1..Len(idxs) |-> one(idxs[k])]

\* lines 321-331
LangViolations(content) ==
    IF Contains(Needle.html, content) /\ ~ Contains(Needle.lang1, content) /\ ~ Contains(Needle.lang2, content)
    THEN << Violation(RuleStr.html_has_lang, RuleStr.serious, RuleStr.help_html_has_lang, RuleStr.url_html_has_lang,
                      Needle.html_tag, <<"h","t","m","l">>) >>
    ELSE <<>>

\* lines 334-344
TitleViolations(content) ==
    IF ~ Contains(Needle.title, content)
    THEN << Violation(RuleStr.document_title, RuleStr.serious, RuleStr.help_document_title, RuleStr.url_document_title,
                      Needle.head_tag, <<"h","e","a","d">>) >>
    ELSE <<>>

\* scan_html_with_alternative_method: rd is what reading the file did
scan_html_with_alternative_method(html_file, rd) ==
    IF ~ rd.ok
    THEN ErrorResult(Msg.exception \o FileName(html_file) \o <<":"," ">> \o rd.message)
    ELSE LET content == rd.content
             violations == ImageAltViolations(content)
                           \o LabelViolations(content, Needle.input)
                           \o LabelViolations(content, Needle.select)
                           \o LabelViolations(content, Needle.textarea)
                           \o LangViolations(content)
                           \o TitleViolations(content)
         IN  JObj(<< <<Key.violations, JArr(violations)>>,
                     <<Key.passes, JArr(<<>>)>>,
                     <<Key.incomplete, JArr(<<>>)>>,
                     <<Key.inapplicable, JArr(<<>>)>>,
                     <<Key.timestamp, JStr(Timestamp)>>,
                     <<Key.url, JStr(Needle.file_url \o PathStr(html_file))>> >>)

\* scan_html_file, after the primary attempt returned result:
\* <<raised, fallback ran, value returned>>
scan_html_file(html_file, result, rd) ==
    LET chk == InError(result)
    IN  IF chk[1] THEN <<TRUE, FALSE, JNull>>
        ELSE IF chk[2] THEN <<FALSE, TRUE, scan_html_with_alternative_method(html_file, rd)>>
        ELSE <<FALSE, FALSE, result>>

\* mutant: the list is not cut
LimitFiles_NoLimit(files) == files

\* run_scan line 703: the slice [:Config.FILE_LIMITS["html"]]
LimitFiles(files) ==
    SubSeq(files, 1, IF Len(files) < FILE_LIMITS_html THEN Len(files) ELSE FILE_LIMITS_html)

\* run_scan line 715: the results key of a file
ResultKey(top, html_file) == PathStr(RelativeTo(html_file, top))

\* mutant: only the keys are written
generate_json_report_KeysOnly(res) ==
    json_dump(JArr([k \in 1..Len(res) |-> JStr(res[k][1])]))

\* generate_json_report: the text json.dump writes for the results mapping
generate_json_report(res) == json_dump(JObj(res))

(***************************************************************************)
(* HTML report                                                             *)
(***************************************************************************)

\* keys and default texts generate_html_report and get_repo_name use
Text ==
    [failureSummary |-> <<"f","a","i","l","u","r","e","S","u","m","m","a","r","y">>,
     stderr |-> <<"s","t","d","e","r","r">>,
     unknown |-> <<"u","n","k","n","o","w","n">>,
     Unknown |-> <<"U","n","k","n","o","w","n">>,
     no_description |-> <<"N","o"," ","d","e","s","c","r","i","p","t","i","o","n">>,
     hash |-> <<"#">>,
     unknown_error |-> <<"U","n","k","n","o","w","n"," ","e","r","r","o","r">>,
     title_open |-> <<"<","t","i","t","l","e",">">>,
     title_close |-> <<"<","/","t","i","t","l","e",">">>,
     title_open_escaped |-> <<"&","l","t",";","t","i","t","l","e","&","g","t",";">>,
     title_close_escaped |-> <<"&","l","t",";","/","t","i","t","l","e","&","g","t",";">>,
     github |-> <<"g","i","t","h","u","b",".","c","o","m">>,
     dot_git |-> <<".","g","i","t">>,
     unknown_repository |-> <<"U","n","k","n","o","w","n"," ","R","e","p","o","s","i","t","o","r","y">>,
     local_repository |-> <<"L","o","c","a","l"," ","R","e","p","o","s","i","t","o","r","y">>,
     repository |-> <<"R","e","p","o","s","i","t","o","r","y">>]

\* the printable ASCII characters in code point order, from the space on
CodePoints ==
    <<" ","!","\"","#","$","%","&","'","(",")","*","+",",","-",".","/","0","1","2","3","4","5","6","7","8","9",":",";","<","=",">","?","@","A","B","C","D","E","F","G","H","I","J","K","L","M","N","O","P","Q","R","S","T","U","V","W","X","Y","Z","[","]","^","_","a","b","c","d","e","f","g","h","i","j","k","l","m","n","o","p","q","r","s","t","u","v","w","x","y","z","{","|","}","~">>

CharRank(c) == (CHOOSE i \in 1..Len(CodePoints) : CodePoints[i] = c)

RECURSIVE StrLess(_, _)
\* a < b for two Python strings
StrLess(a, b) ==
    IF Len(b) = 0 THEN FALSE
    ELSE IF Len(a) = 0 THEN TRUE
    ELSE IF a[1] = b[1] THEN StrLess(Tail(a), Tail(b))
    ELSE CharRank(a[1]) < CharRank(b[1])

RECURSIVE FlattenRange(_, _, _)
FlattenRange(seqs, lo, hi) ==
    IF lo > hi THEN <<>>
    ELSE IF lo = hi THEN seqs[lo]
    ELSE LET mid == (lo + hi) \div 2
         IN  FlattenRange(seqs, lo, mid) \o FlattenRange(seqs, mid + 1, hi)

\* the concatenation of a sequence of sequences
Flatten(seqs) == FlattenRange(seqs, 1, Len(seqs))

RECURSIVE JoinText(_, _)
\* sep.join(parts) for a separator of any length
JoinText(parts, sep) ==
    IF Len(parts) = 0 THEN <<>>
    ELSE IF Len(parts) = 1 THEN parts[1]
    ELSE parts[1] \o sep \o JoinText(Tail(parts), sep)

\* s.replace(old, new)
Replace(s, old, new) == JoinText(Split(s, old), new)

\* html.escape(s), quote=True
html_escape(s) ==
    Flatten([k \in 1..Len(s) |->
                CASE s[k] = "&" -> <<"&","a","m","p",";">>
                  [] s[k] = "<" -> <<"&","l","t",";">>
                  [] s[k] = ">" -> <<"&","g","t",";">>
                  [] s[k] = "\"" -> <<"&","q","u","o","t",";">>
                  [] s[k] = "'" -> <<"&","#","x","2","7",";">>
                  [] OTHER -> <<s[k]>>])

\* str(x) for a Python value; a value that is no string is shown by its JSON text
Str(x) == IF Tag(x) = "str" THEN Val(x) ELSE TextOf(DumpValue(x, FALSE))

\* bool(x): Python truthiness
Truthy(x) ==
    CASE Tag(x) = "null" -> FALSE
      [] Tag(x) = "bool" -> Val(x)
      [] Tag(x) = "num" -> Val(x) # 0
      [] OTHER -> Len(Val(x)) > 0

\* get_repo_name, lines 63-86: remote is what git remote get-url origin did
get_repo_name(top, remote) ==
    LET name == IF Len(top) > 1 THEN top[Len(top)] ELSE <<>>
        dir_name == IF name # <<>> THEN name ELSE Text.repository
    IN  IF remote.kind # "exit" THEN dir_name
        ELSE IF remote.returncode = 0 /\ remote.stdout # <<>>
        THEN IF Contains(Text.github, remote.stdout)
             THEN LET parts == Split(remote.stdout, <<"/">>)
                  IN  IF Len(parts) >= 2
                      THEN parts[Len(parts) - 1] \o <<"/">>
                           \o Replace(parts[Len(parts)], Text.dot_git, <<>>)
                      ELSE Text.unknown_repository
             ELSE Text.local_repository
        ELSE dir_name

RECURSIVE Insert(_, _)
\* item put into a list of items sorted by key
Insert(item, sorted) ==
    IF Len(sorted) = 0 THEN <<item>>
    ELSE IF StrLess(item[1], Head(sorted)[1]) THEN <<item>> \o sorted
    ELSE <<Head(sorted)>> \o Insert(item, Tail(sorted))

RECURSIVE SortedItems(_)
\* sorted(results.items()), line 502: the keys of a dict are distinct
SortedItems(items) ==
    IF Len(items) = 0 THEN <<>> ELSE Insert(Head(items), SortedItems(Tail(items)))

\* line 504
file_id(file_path) ==
    Replace(Replace(Replace(file_path, <<"/">>, <<"_">>), <<".">>, <<"_">>), <<" ">>, <<"_">>)

\* one place of the report where a text is embedded: the text the input gave
\* and the text written into the document
Slot(field, source, emitted) == [field |-> field, source |-> source, emitted |-> emitted]

\* one element of results_html
Chunk(kind, file_path, slots) == [kind |-> kind, file_path |-> file_path, slots |-> slots]

\* lines 569-570: the two replacements made before escaping
ReplaceTitle(s) ==
    Replace(Replace(s, Text.title_open, Text.title_open_escaped),
            Text.title_close, Text.title_close_escaped)

\* file_results.get(key, []) of lines 530-533
ListOf(file_results, key) == DictGet(Val(file_results), key, JArr(<<>>))

\* violation.get('nodes', [{}])
NodesOf(finding) == DictGet(Val(finding), Key.nodes, JArr(<< JObj(<<>>) >>))

\* whether lines 536-598 process a violation or incomplete entry without an
\* exception: a dict with string fields whose nodes list starts with a dict
FindingRenders(finding) ==
    /\ Tag(finding) = "obj"
    /\ \A key \in {Key.id, Key.impact, Key.help, Key.helpUrl} :
           Tag(DictGet(Val(finding), key, JStr(<<>>))) = "str"
    /\ Tag(NodesOf(finding)) = "arr"
    /\ Len(Val(NodesOf(finding))) > 0
    /\ Tag(Val(NodesOf(finding))[1]) = "obj"
    /\ \A key \in {Key.html, Text.failureSummary} :
           Tag(DictGet(Val(Val(NodesOf(finding))[1]), key, JStr(<<>>))) = "str"

\* whether lines 536-549 go through the four lists without an exception
ListsRender(file_results) ==
    /\ \A key \in {Key.violations, Key.incomplete} :
           /\ Tag(ListOf(file_results, key)) = "arr"
           /\ \A k \in 1..Len(Val(ListOf(file_results, key))) :
                  FindingRenders(Val(ListOf(file_results, key))[k])
    /\ \A key \in {Key.passes, Key.inapplicable} :
           /\ Tag(ListOf(file_results, key)) = "arr"
           /\ \A k \in 1..Len(Val(ListOf(file_results, key))) :
                  LET entry == Val(ListOf(file_results, key))[k]
                  IN  /\ Tag(entry) = "obj"
                      /\ Tag(DictGet(Val(entry), Key.id, JStr(<<>>))) \notin {"arr", "obj"}

\* the ids of a list of findings: x.get('id', 'unknown')
IdsOf(list) ==
    {Str(DictGet(Val(Val(list)[k]), Key.id, JStr(Text.unknown))) : k \in 1..Len(Val(list))}

\* a text embedded through html.escape
Escaped(field, text) == Slot(field, text, html_escape(text))

\* finding.get(key, default), a string
FieldOf(finding, key, default) == Val(DictGet(Val(finding), key, JStr(default)))

\* finding.get('nodes', [{}])[0].get(key, '')
NodeFieldOf(finding, key) == Val(DictGet(Val(Val(NodesOf(finding))[1]), key, JStr(<<>>)))

\* lines 569-580 and 589-598: the texts embedded for one violation or
\* incomplete entry; the snippet and the summary are escaped after ReplaceTitle,
\* the summary is embedded for a violation only
FindingSlots(kind, impact, id, help, help_url, snippet, summary) ==
    << Escaped("impact", impact), Escaped("id", id), Escaped("help", help),
       Escaped("helpUrl", help_url) >>
    \o (IF ReplaceTitle(snippet) # <<>>
        THEN << Slot("html", snippet, html_escape(ReplaceTitle(snippet))) >> ELSE <<>>)
    \o (IF kind = "violation" /\ ReplaceTitle(summary) # <<>>
        THEN << Slot("failureSummary", summary, html_escape(ReplaceTitle(summary))) >>
        ELSE <<>>)

\* lines 561-580 and 583-598: the chunk of one violation or incomplete entry
FindingChunk(kind, file_path, finding) ==
    Chunk(kind, file_path,
          FindingSlots(kind,
                       FieldOf(finding, Key.impact, Text.unknown),
                       FieldOf(finding, Key.id, Text.Unknown),
                       FieldOf(finding, Key.help, Text.no_description),
                       FieldOf(finding, Key.helpUrl, Text.hash),
                       NodeFieldOf(finding, Key.html),
                       NodeFieldOf(finding, Text.failureSummary)))

\* the two places of a file's header that carry file_id and the one that
\* carries the path (lines 510-513, 554-557, 604-607)
HeaderSlotsWith(file_path, id) ==
    << Slot("onclick", id, id), Escaped("file_path", file_path), Slot("element_id", id, id) >>

HeaderSlots(file_path) == HeaderSlotsWith(file_path, file_id(file_path))

\* what the loop body of lines 502-611 leaves for one item of results: whether
\* an exception left the renderer, the chunks appended to results_html, the
\* counts and the test ids
FileRender(raised, chunks, errors, violations, incomplete, executed, passed, inapplicable) ==
    [raised |-> raised, chunks |-> chunks, errors |-> errors, violations |-> violations,
     incomplete |-> incomplete, executed |-> executed, passed |-> passed,
     inapplicable |-> inapplicable]

\* lines 515-516: the error text and, when truthy, the stderr text
ErrorSlots(message, stderr) ==
    << Escaped("error", Str(message)) >>
    \o (IF Truthy(stderr) THEN << Escaped("stderr", Str(stderr)) >> ELSE <<>>)

\* lines 507-520: the chunk of a file whose result is an error outcome
ErrorChunks(file_path, file_results) ==
    << Chunk("error", file_path,
             HeaderSlots(file_path)
             \o ErrorSlots(DictGet(Val(file_results), Key.error, JStr(Text.unknown_error)),
                           DictGet(Val(file_results), Text.stderr, JStr(<<>>)))) >>

\* mutant: a file without violations is rendered clean
ChunksOf_ViolationsOnly(file_path, violations, incomplete) ==
    IF Len(violations) > 0
    THEN << Chunk("findings", file_path, HeaderSlots(file_path)) >>
         \o [k \in 1..Len(violations) |-> FindingChunk("violation", file_path, violations[k])]
         \o [k \in 1..Len(incomplete) |-> FindingChunk("incomplete", file_path, incomplete[k])]
         \o << Chunk("close", file_path, <<>>) >>
    ELSE << Chunk("clean", file_path, HeaderSlots(file_path)) >>

\* lines 551-611: the chunks of a file with the lists violations and incomplete
ChunksOf(file_path, violations, incomplete) ==
    IF Len(violations) > 0 \/ Len(incomplete) > 0
    THEN << Chunk("findings", file_path, HeaderSlots(file_path)) >>
         \o [k \in 1..Len(violations) |-> FindingChunk("violation", file_path, violations[k])]
         \o [k \in 1..Len(incomplete) |-> FindingChunk("incomplete", file_path, incomplete[k])]
         \o << Chunk("close", file_path, <<>>) >>
    ELSE << Chunk("clean", file_path, HeaderSlots(file_path)) >>

\* lines 528-611 for a dict with the key violations
RenderAxe(file_path, violations, incomplete, passes, inapplicable) ==
    FileRender(FALSE, ChunksOf(file_path, Val(violations), Val(incomplete)), 0,
               Len(Val(violations)), Len(Val(incomplete)),
               IdsOf(violations) \cup IdsOf(incomplete), IdsOf(passes), IdsOf(inapplicable))

\* lines 502-611 for one item of results
RenderFile(file_path, file_results) ==
    IF Tag(file_results) = "obj" /\ HasKey(Val(file_results), Key.error)
    THEN FileRender(FALSE, ErrorChunks(file_path, file_results), 1, 0, 0, {}, {}, {})
    ELSE IF Tag(file_results) = "obj" /\ HasKey(Val(file_results), Key.violations)
    THEN IF ~ ListsRender(file_results)
         THEN FileRender(TRUE, <<>>, 0, 0, 0, {}, {}, {})
         ELSE RenderAxe(file_path, ListOf(file_results, Key.violations),
                        ListOf(file_results, Key.incomplete),
                        ListOf(file_results, Key.passes),
                        ListOf(file_results, Key.inapplicable))
    ELSE FileRender(FALSE, ChunksOf(file_path, <<>>, <<>>), 0, 0, 0, {}, {}, {})

\* line ends of the report template and of each text put into it
LineEnds ==
    [template |-> 109, coverage |-> 24, no_files |-> 17, no_tests |-> 0,
     error |-> 12, findings |-> 6, violation |-> 8, incomplete |-> 7, close |-> 0,
     clean |-> 9]

RECURSIVE Sum(_)
Sum(ns) == IF Len(ns) = 0 THEN 0 ELSE Head(ns) + Sum(Tail(ns))

\* the least number of lines below which line 679 warns
MinHtmlLines == 100

\* lines 614-663: which text becomes tests_executed_section
SectionKind(total_files, ids) ==
    IF ids # {} THEN "coverage" ELSE IF total_files = 0 THEN "no_files" ELSE "no_tests"

\* line ends of the list of a set of test ids, one <li> per line
ListEnds(ids) == IF ids = {} THEN 0 ELSE Cardinality(ids) - 1

\* line 677: len(html_content.splitlines())
HtmlLines(kind, results_html, executed, passed, inapplicable) ==
    LineEnds.template + 1 + LineEnds[kind]
    + (IF kind = "coverage"
       THEN ListEnds(executed) + ListEnds(passed) + ListEnds(inapplicable) ELSE 0)
    + (IF Len(results_html) = 0 THEN 0
       ELSE Sum([k \in 1..Len(results_html) |-> LineEnds[results_html[k].kind]])
            + Len(results_html) - 1)

\* line 679: len(results_html)
SectionCount(results_html) == Len(results_html)

\* mutant: the panel for a repository without files is shown whenever no test ran
Panel_NoTests(kind) == IF kind = "no_tests" THEN "no_files" ELSE kind

\* the panel put in place of {{tests_executed_section}}
Panel(kind) == kind

\* lines 665-688: the document written and the sanity check
WriteReport(files, total_files, name, results_html, executed, passed, inapplicable, kind) ==
    [raised |-> \E k \in 1..Len(files) : files[k].raised,
     total_files |-> total_files,
     total_violations |-> Sum([k \in 1..Len(files) |-> files[k].violations]),
     total_incomplete |-> Sum([k \in 1..Len(files) |-> files[k].incomplete]),
     error_files |-> Sum([k \in 1..Len(files) |-> files[k].errors]),
     results_html |-> results_html,
     tests_executed_section |-> Panel(kind),
     test_ids |-> IF kind = "coverage" THEN executed \cup passed \cup inapplicable ELSE {},
     repo_name |-> name,
     html_lines |-> HtmlLines(kind, results_html, executed, passed, inapplicable),
     warning |-> \/ HtmlLines(kind, results_html, executed, passed, inapplicable) < MinHtmlLines
                 \/ total_files # SectionCount(results_html)]

\* the union of one of the id sets of the files
IdsOfFiles(files, which) == UNION {files[k][which] : k \in 1..Len(files)}

\* lines 613-663
Summarize(files, total_files, name, executed, passed, inapplicable) ==
    WriteReport(files, total_files, name,
                Flatten([k \in 1..Len(files) |-> files[k].chunks]),
                executed, passed, inapplicable,
                SectionKind(total_files, executed \cup passed \cup inapplicable))

\* lines 502-611: the loop over the sorted items
RenderItems(items) == [k \in 1..Len(items) |-> RenderFile(items[k][1], items[k][2])]

\* lines 490-663, on the rendered files
Collect(files, total_files, name) ==
    Summarize(files, total_files, name, IdsOfFiles(files, "executed"),
              IdsOfFiles(files, "passed"), IdsOfFiles(files, "inapplicable"))

\* generate_html_report: what the renderer computes and writes for results
generate_html_report(res, name) == Collect(RenderItems(SortedItems(res)), Len(res), name)

(***************************************************************************)
(* Inputs: repositories, environments and collaborator outcomes            *)
(***************************************************************************)

Ext_html == <<".","h","t","m","l">>
Ext_ts == <<".","t","s">>

Root_repo == << <<"/">>, <<"r","e","p","o">> >>
Root_www == << <<"/">>, <<"w","w","w">>, <<"s","i","t","e">> >>
Root_quote == << <<"/">>, <<"m","y","'","r","e","p","o">> >>
Root_portfolios == << <<"/">>, <<"w","o","r","k">>, <<"p","o","r","t","f","o","l","i","o","s">> >>

\* a repository listing: index.html, dist/a.html, rebuild/sub/d.html, src/dist/b.html, rebuild/c.html, docs/e.html, notes.txt, app.spec.ts, main.ts
TreeListing ==
    << << <<"i","n","d","e","x",".","h","t","m","l">> >>,
       << <<"d","i","s","t">>, <<"a",".","h","t","m","l">> >>,
       << <<"r","e","b","u","i","l","d">>, <<"s","u","b">>, <<"d",".","h","t","m","l">> >>,
       << <<"s","r","c">>, <<"d","i","s","t">>, <<"b",".","h","t","m","l">> >>,
       << <<"r","e","b","u","i","l","d">>, <<"c",".","h","t","m","l">> >>,
       << <<"d","o","c","s">>, <<"e",".","h","t","m","l">> >>,
       << <<"n","o","t","e","s",".","t","x","t">> >>,
       << <<"a","p","p",".","s","p","e","c",".","t","s">> >>,
       << <<"m","a","i","n",".","t","s">> >> >>

\* lines git diff --name-only can print: index.html, rebuild/sub/d.html, dist/a.html, gone.html, main.ts
ChangedListing ==
    << <<"i","n","d","e","x",".","h","t","m","l">>,
       <<"r","e","b","u","i","l","d","/","s","u","b","/","d",".","h","t","m","l">>,
       <<"d","i","s","t","/","a",".","h","t","m","l">>,
       <<"g","o","n","e",".","h","t","m","l">>,
       <<"m","a","i","n",".","t","s">> >>

\* a small repository for whole runs: index.html, docs/e.html, about.html, dist/a.html
SmallListing ==
    << << <<"i","n","d","e","x",".","h","t","m","l">> >>,
       << <<"d","o","c","s">>, <<"e",".","h","t","m","l">> >>,
       << <<"a","b","o","u","t",".","h","t","m","l">> >>,
       << <<"d","i","s","t">>, <<"a",".","h","t","m","l">> >> >>
\* sample HTML documents
Doc ==
    [spec |-> <<"<","h","t","m","l",">","<","h","e","a","d",">","<","t","i","t","l","e",">","T","<","/","t","i","t","l","e",">","<","/","h","e","a","d",">","<","b","o","d","y",">","<","i","m","g"," ","s","r","c","=","\"","a",".","p","n","g","\"",">","<","/","b","o","d","y",">","<","/","h","t","m","l",">">>,
     clean |-> <<"<","h","t","m","l"," ","l","a","n","g","=","\"","e","n","\"",">","<","t","i","t","l","e",">","T","<","/","t","i","t","l","e",">","<","i","m","g"," ","a","l","t","=","\"","x","\"",">","<","/","h","t","m","l",">">>,
     form |-> <<"<","i","n","p","u","t"," ","i","d","=","\"","a","\"",">","<","i","n","p","u","t",">","<","l","a","b","e","l"," ","f","o","r","=","\"","a","\"",">">>]

\* sample texts of exceptions, process output and axe results
Sample ==
    [denied |-> <<"P","e","r","m","i","s","s","i","o","n"," ","d","e","n","i","e","d">>,
     node |-> <<"N","o"," ","s","u","c","h"," ","f","i","l","e",":"," ","n","o","d","e">>,
     oops |-> <<"o","o","p","s">>,
     failed |-> <<"s","c","a","n"," ","e","r","r","o","r",":"," ","p","a","g","e"," ","c","r","a","s","h","e","d">>,
     ok |-> <<"o","k">>,
     nav |-> <<"N","a","v","i","g","a","t","i","o","n"," ","t","i","m","e","o","u","t">>,
     t_color |-> <<"c","o","l","o","r","-","c","o","n","t","r","a","s","t">>,
     t_moderate |-> <<"m","o","d","e","r","a","t","e">>,
     h_color |-> <<"E","l","e","m","e","n","t","s"," ","m","u","s","t"," ","m","e","e","t"," ","c","o","n","t","r","a","s","t">>,
     u_color |-> <<"h","t","t","p","s",":","/","/","d","e","q","u","e","u","n","i","v","e","r","s","i","t","y",".","c","o","m","/","r","u","l","e","s","/","a","x","e","/","4",".","7","/","c","o","l","o","r","-","c","o","n","t","r","a","s","t">>,
     p |-> <<"<","p",">">>,
     p_name |-> <<"p">>,
     t_bypass |-> <<"b","y","p","a","s","s">>]

MaxChanged == 3
MaxSmallTree == 2
MaxLocated == 1001
MaxSmallRepo == 30

Min(a, b) == IF a < b THEN a ELSE b

\* the listings made of the first k entries, k up to n
Prefixes(listing, n) == {SubSeq(listing, 1, k) : k \in 0..Min(n, Len(listing))}

RECURSIVE PickFrom(_, _, _)
\* the entries of seq at the positions in S, in order
PickFrom(seq, S, i) ==
    IF i > Len(seq) THEN <<>>
    ELSE (IF i \in S THEN <<seq[i]>> ELSE <<>>) \o PickFrom(seq, S, i + 1)

\* outputs of git diff --name-only: at most MaxChanged of the lines, in order
ChangedOutputs ==
    {PickFrom(ChangedListing, S, 1) :
        S \in {T \in SUBSET (1..Len(ChangedListing)) : Cardinality(T) <= MaxChanged}}

GitRun(kind, returncode, stdout) ==
    [kind |-> kind, returncode |-> returncode, stdout |-> stdout]

\* what subprocess.run(['git', 'diff', ...]) can do: raise OSError, time out, exit
GitOutcomes ==
    {GitRun("oserror", 0, <<>>), GitRun("timeout", 0, <<>>), GitRun("exit", 128, <<>>)}
    \cup {GitRun("exit", 0, out) : out \in ChangedOutputs}

GitOutcomesSmall ==
    {GitRun("timeout", 0, <<>>), GitRun("exit", 0, <<ChangedListing[1]>>)}

NodeRun(kind, returncode, stdout, stderr, message) ==
    [kind |-> kind, returncode |-> returncode, stdout |-> stdout, stderr |-> stderr,
     message |-> message]

NoRun == NodeRun("none", 0, <<>>, <<>>, <<>>)

\* axe results as the automation script prints them
AxeClean ==
    JObj(<< <<Key.violations, JArr(<<>>)>>,
            <<Key.incomplete, JArr(<<>>)>>,
            <<Key.passes, JArr(<< JObj(<< <<Key.id, JStr(Sample.t_bypass)>> >>) >>)>>,
            <<Key.inapplicable, JArr(<<>>)>> >>)

AxeFindings ==
    JObj(<< <<Key.violations, JArr(<< Violation(Sample.t_color, Sample.t_moderate, Sample.h_color, Sample.u_color,
                                              Sample.p, Sample.p_name) >>)>>,
            <<Key.incomplete, JArr(<<>>)>>,
            <<Key.passes, JArr(<<>>)>>,
            <<Key.inapplicable, JArr(<<>>)>> >>)

\* axe results with an incomplete entry and no violation
AxeIncomplete ==
    JObj(<< <<Key.violations, JArr(<<>>)>>,
            <<Key.incomplete, JArr(<< Violation(Sample.t_color, Sample.t_moderate, Sample.h_color,
                                              Sample.u_color, Sample.p, Sample.p_name) >>)>>,
            <<Key.passes, JArr(<<>>)>>,
            <<Key.inapplicable, JArr(<<>>)>> >>)

AxeErrorObject ==
    JObj(<< <<Key.error, JStr(Sample.nav)>>, <<Key.stack, JStr(Sample.oops)>> >>)

\* well-formed JSON values a process can print
JsonValues ==
    {AxeClean, AxeFindings, AxeIncomplete, AxeErrorObject, JObj(<<>>), JArr(<<>>),
     JArr(<<JStr(Key.error)>>), JStr(Sample.failed), JStr(Sample.ok), JNull, JNum(5), JBool(TRUE)}

\* texts that are not JSON
BrokenTexts == {<<Junk(Sample.oops)>>, <<Punct("{"), Lit(JStr(Key.error))>>}

\* what writing the script and running node can do for one file
ProcOutcomes ==
    {NodeRun("write_error", 0, <<>>, <<>>, Sample.denied),
     NodeRun("launch_error", 0, <<>>, <<>>, Sample.node),
     NodeRun("timeout", 0, <<>>, <<>>, <<>>)}
    \cup {NodeRun("exit", 0, Stringify(x), <<>>, <<>>) : x \in JsonValues}
    \cup {NodeRun("exit", 0, t, <<>>, <<>>) : t \in BrokenTexts \cup {<<>>, <<Ws>>}}
    \cup {NodeRun("exit", 1, <<>>, Stringify(x), <<>>) :
              x \in {AxeErrorObject, JObj(<<>>), JArr(<<>>)}}
    \cup {NodeRun("exit", 1, <<>>, t, <<>>) : t \in BrokenTexts \cup {<<>>}}
    \cup {NodeRun("exit", 1, <<Junk(Sample.oops)>>, <<>>, <<>>)}

ProcOutcomesSucceeding ==
    {NodeRun("exit", 0, Stringify(x), <<>>, <<>>) : x \in {AxeClean, AxeFindings}}

ReadOf(ok, content, message) == [ok |-> ok, content |-> content, message |-> message]

\* what html_file.read_text can do
ReadOutcomes ==
    {ReadOf(TRUE, d, <<>>) : d \in {Doc.spec, Doc.form}}
    \cup {ReadOf(FALSE, <<>>, Sample.denied)}

ReadOutcomesClean == {ReadOf(TRUE, Doc.clean, <<>>)}

\* file names f0.html, f1.html, ... for large repositories
NumberedListing(n) == [k \in 1..n |-> << <<"f">> \o IntStr(k) \o Ext_html >>]

\* sizes of large repositories around the file limit
LimitTrees ==
    {NumberedListing(n) : n \in (0..MaxSmallRepo) \cup ((FILE_LIMITS_html - 1)..MaxLocated)}

NoValue == <<"none", <<>>>>

MaxImages == 2
MaxSections == 45

\* the pieces HTML documents are built from
Piece ==
    [html_open |-> <<"<","h","t","m","l">>,
     lang |-> <<" ","l","a","n","g","=","\"","e","n","\"">>,
     head_open |-> <<">","<","h","e","a","d",">">>,
     title |-> <<"<","t","i","t","l","e",">","T","<","/","t","i","t","l","e",">">>,
     body_open |-> <<"<","/","h","e","a","d",">","<","b","o","d","y",">">>,
     inner_lang |-> <<"<","p"," ","l","a","n","g","=","\"","f","r","\"",">","x","<","/","p",">">>,
     img |-> <<"<","i","m","g"," ","s","r","c","=","\"","a",".","p","n","g","\"">>,
     alt |-> <<" ","a","l","t","=","\"","x","\"">>,
     tag_close |-> <<">">>,
     close |-> <<"<","/","b","o","d","y",">","<","/","h","t","m","l",">">>]

\* a document by its construction: whether the html element has a lang
\* attribute, whether a paragraph of the body has one, whether the head has a
\* title element, and for each img element whether it has an alt attribute
DocShape(lang, inner_lang, title, imgs) ==
    [lang |-> lang, inner_lang |-> inner_lang, title |-> title, imgs |-> imgs]

\* the text of the document
DocText(d) ==
    Piece.html_open \o (IF d.lang THEN Piece.lang ELSE <<>>) \o Piece.head_open
    \o (IF d.title THEN Piece.title ELSE <<>>) \o Piece.body_open
    \o (IF d.inner_lang THEN Piece.inner_lang ELSE <<>>)
    \o Flatten([k \in 1..Len(d.imgs) |->
                   Piece.img \o (IF d.imgs[k] THEN Piece.alt ELSE <<>>) \o Piece.tag_close])
    \o Piece.close

DocShapes ==
    {DocShape(lang, inner, title, imgs) :
        lang \in BOOLEAN, inner \in BOOLEAN, title \in BOOLEAN,
        imgs \in UNION {[1..n -> BOOLEAN] : n \in 0..MaxImages}}

NoDocument == DocShape(FALSE, FALSE, FALSE, <<>>)

\* what git remote get-url origin can do
NoRemote == GitRun("exit", 128, <<>>)

RemoteOutcomes ==
    {NoRemote, GitRun("timeout", 0, <<>>),
     GitRun("exit", 0, <<"h","t","t","p","s",":","/","/","g","i","t","h","u","b",".","c","o","m","/","a","c","m","e","/","s","i","t","e",".","g","i","t">>),
     GitRun("exit", 0, <<"/","s","r","v","/","g","i","t","/","s","i","t","e",".","g","i","t">>)}

\* paths that differ only in characters file_id replaces, and a path with a quote
ReportListing ==
    << << <<"a">>, <<"b",".","h","t","m","l">> >>,
       << <<"a","_","b",".","h","t","m","l">> >>,
       << <<"x","'","y",".","h","t","m","l">> >> >>

\* axe results whose violation shows a title element
AxeTitle ==
    JObj(<< <<Key.violations, JArr(<< Violation(Sample.t_color, Sample.t_moderate, Sample.h_color,
                                              Sample.u_color, Piece.title, Sample.p_name) >>)>>,
            <<Key.incomplete, JArr(<<>>)>>,
            <<Key.passes, JArr(<< JObj(<< <<Key.id, JStr(Sample.t_bypass)>> >>) >>)>>,
            <<Key.inapplicable, JArr(<<>>)>> >>)

\* node outcomes for the report: clean, findings, a title snippet, a timeout
ProcOutcomesReport ==
    {NodeRun("exit", 0, Stringify(x), <<>>, <<>>) : x \in {AxeClean, AxeFindings, AxeTitle}}
    \cup {NodeRun("timeout", 0, <<>>, <<>>, <<>>)}

(***************************************************************************)
(* The program: main, run_scan and the per-file scan                       *)
(***************************************************************************)

InitProgram(roots, trees, patterns, modes, events, base_refs, gits, remotes) ==
    /\ pc = "start"
    /\ args_mode \in modes
    /\ SCAN_MODE = "None"
    /\ github_event \in events
    /\ github_base_ref \in base_refs
    /\ repo_path \in roots
    /\ tree \in trees
    /\ pattern \in patterns
    /\ git_diff \in gits
    /\ mode_chosen = "none"
    /\ located = <<>>
    /\ html_files = <<>>
    /\ idx = 0
    /\ phase = "pending"
    /\ proc = NoRun
    /\ primary = NoValue
    /\ fallback_ran = FALSE
    /\ current = NoValue
    /\ returned = <<>>
    /\ results = <<>>
    /\ report_written = FALSE
    /\ report_json = <<>>
    /\ exit_code = -1
    /\ repo_name \in {get_repo_name(repo_path, r) : r \in remotes}
    /\ attempts = <<>>
    /\ html_written = FALSE
    /\ report_html = <<>>
    /\ interrupted = FALSE
    /\ temp_scripts = 0

\* no report is open in a browser
BrowserClosed(sections) ==
    /\ page_loaded = FALSE
    /\ fileSections \in sections
    /\ currentPage = 0
    /\ display = <<>>
    /\ prevBtn_disabled = FALSE
    /\ nextBtn_disabled = FALSE

FallbackIdle(shapes) ==
    /\ document \in shapes
    /\ alternative_result = NoValue

InitWith(roots, trees, patterns, modes, events, base_refs, gits) ==
    /\ InitProgram(roots, trees, patterns, modes, events, base_refs, gits, {NoRemote})
    /\ BrowserClosed({0})
    /\ FallbackIdle({NoDocument})

\* main, lines 742-752: the arguments set the configuration
Main ==
    /\ pc = "start"
    /\ pc' = "locate"
    /\ SCAN_MODE' = IF args_mode # "auto" THEN args_mode ELSE SCAN_MODE
    /\ UNCHANGED <<args_mode, github_event, github_base_ref, repo_path, tree, pattern,
                   git_diff, mode_chosen, located, html_files, idx, phase, proc, primary,
                   fallback_ran, current, returned, results, report_written, report_json,
                   exit_code, attempts>>
    /\ UNCHANGED <<reportVars, browserVars, fallbackVars, temp_scripts>>

\* run_scan, lines 703-719: locate the files, cut the list at the limit
Locate ==
    /\ pc = "locate"
    /\ mode_chosen' = AffectedMode(SCAN_MODE, github_event, github_base_ref)
    /\ located' = get_affected_files(repo_path, tree, pattern, SCAN_MODE, github_event,
                                     github_base_ref, git_diff)
    /\ html_files' = LimitFiles(located')
    /\ pc' = IF Len(html_files') > 0 THEN "scan" ELSE "json_report"
    /\ attempts' = [k \in 1..Len(html_files') |-> <<0, 0>>]
    /\ UNCHANGED <<args_mode, SCAN_MODE, github_event, github_base_ref, repo_path, tree,
                   pattern, git_diff, idx, phase, proc, primary, fallback_ran, current,
                   returned, results, report_written, report_json, exit_code>>
    /\ UNCHANGED <<reportVars, browserVars, fallbackVars, temp_scripts>>

\* scan_html_file, line 363: the primary attempt for file idx + 1
PrimaryAttempt(outcomes) ==
    /\ pc = "scan"
    /\ phase = "pending"
    /\ \E p \in outcomes :
        /\ proc' = p
        /\ primary' = scan_html_with_puppeteer_axe(html_files[idx + 1], p)
        /\ temp_scripts' = temp_scripts + ScriptsLeft(p)
    /\ phase' = "primary_attempted"
    /\ attempts' = [attempts EXCEPT ![idx + 1][1] = @ + 1]
    /\ UNCHANGED <<pc, args_mode, SCAN_MODE, github_event, github_base_ref, repo_path,
                   tree, pattern, git_diff, mode_chosen, located, html_files, idx,
                   fallback_ran, current, returned, results, report_written, report_json,
                   exit_code>>
    /\ UNCHANGED <<reportVars, browserVars, fallbackVars>>

\* scan_html_file, lines 366-370: the error test, the fallback, the return
Dispatch(reads) ==
    /\ pc = "scan"
    /\ phase = "primary_attempted"
    /\ \E rd \in reads :
        LET out == scan_html_file(html_files[idx + 1], primary, rd)
        IN  IF out[1]
            THEN /\ pc' = "raised"
                 /\ UNCHANGED <<phase, fallback_ran, current, returned, attempts>>
            ELSE /\ pc' = pc
                 /\ attempts' = IF out[2] THEN [attempts EXCEPT ![idx + 1][2] = @ + 1]
                                ELSE attempts
                 /\ phase' = "done"
                 /\ fallback_ran' = out[2]
                 /\ current' = out[3]
                 /\ returned' = Append(returned,
                                   <<ResultKey(repo_path, html_files[idx + 1]), out[3]>>)
    /\ UNCHANGED <<args_mode, SCAN_MODE, github_event, github_base_ref, repo_path, tree,
                   pattern, git_diff, mode_chosen, located, html_files, idx, proc, primary,
                   results, report_written, report_json, exit_code>>
    /\ UNCHANGED <<reportVars, browserVars, fallbackVars, temp_scripts>>

\* run_scan, line 715: store the result, go to the next file
StoreResult ==
    /\ pc = "scan"
    /\ phase = "done"
    /\ results' = DictSet(results, ResultKey(repo_path, html_files[idx + 1]), current)
    /\ idx' = idx + 1
    /\ phase' = "pending"
    /\ proc' = NoRun
    /\ primary' = NoValue
    /\ current' = NoValue
    /\ fallback_ran' = FALSE
    /\ pc' = IF idx + 1 = Len(html_files) THEN "json_report" ELSE "scan"
    /\ UNCHANGED <<args_mode, SCAN_MODE, github_event, github_base_ref, repo_path, tree,
                   pattern, git_diff, mode_chosen, located, html_files, returned,
                   report_written, report_json, exit_code, attempts>>
    /\ UNCHANGED <<reportVars, browserVars, fallbackVars, temp_scripts>>

\* run_scan, lines 707-717: the whole loop over html_files in one step, every
\* file meeting the same subprocess and read outcome
ScanAll(outcomes, reads) ==
    /\ pc = "scan"
    /\ idx = 0
    /\ phase = "pending"
    /\ \E p \in outcomes, rd \in reads :
        LET out(k) == scan_html_file(html_files[k],
                          scan_html_with_puppeteer_axe(html_files[k], p), rd)
            pairs == [k \in 1..Len(html_files) |->
                         <<ResultKey(repo_path, html_files[k]), out(k)[3]>>]
            raising == {k \in 1..Len(html_files) : out(k)[1]}
            n_ok == IF raising = {} THEN Len(html_files)
                    ELSE (CHOOSE k \in raising : \A j \in raising : k <= j) - 1
        IN  /\ results' = DictFromPairs(SubSeq(pairs, 1, n_ok))
            /\ returned' = SubSeq(pairs, 1, n_ok)
            /\ idx' = n_ok
            /\ pc' = IF raising = {} THEN "json_report" ELSE "raised"
            /\ attempts' = [k \in 1..Len(html_files) |->
                               IF k <= idx' THEN <<1, IF out(k)[2] THEN 1 ELSE 0>>
                               ELSE IF k = idx' + 1 THEN <<1, 0>>
                               ELSE <<0, 0>>]
            /\ temp_scripts' = temp_scripts
                   + (IF raising = {} THEN idx' ELSE idx' + 1) * ScriptsLeft(p)
    /\ UNCHANGED <<args_mode, SCAN_MODE, github_event, github_base_ref, repo_path, tree,
                   pattern, git_diff, mode_chosen, located, html_files, phase, proc,
                   primary, fallback_ran, current, report_written, report_json, exit_code>>
    /\ UNCHANGED <<reportVars, browserVars, fallbackVars>>

\* run_scan, line 723: write report.json
GenerateJsonReport ==
    /\ pc = "json_report"
    /\ report_json' = generate_json_report(results)
    /\ report_written' = TRUE
    /\ pc' = "html_report"
    /\ UNCHANGED <<args_mode, SCAN_MODE, github_event, github_base_ref, repo_path, tree,
                   pattern, git_diff, mode_chosen, located, html_files, idx, phase, proc,
                   primary, fallback_ran, current, returned, results, exit_code, attempts>>
    /\ UNCHANGED <<reportVars, browserVars, fallbackVars, temp_scripts>>

\* run_scan, line 724: write report.html; an exception of the renderer leaves run_scan
GenerateHtmlReport ==
    /\ pc = "html_report"
    /\ LET report == generate_html_report(results, repo_name)
       IN  IF report.raised
           THEN /\ pc' = "raised"
                /\ UNCHANGED <<html_written, report_html>>
           ELSE /\ pc' = "completed"
                /\ html_written' = TRUE
                /\ report_html' = report
    /\ UNCHANGED <<args_mode, SCAN_MODE, github_event, github_base_ref, repo_path, tree,
                   pattern, git_diff, mode_chosen, located, html_files, idx, phase, proc,
                   primary, fallback_ran, current, returned, results, report_written,
                   report_json, exit_code, attempts, repo_name, interrupted>>
    /\ UNCHANGED <<browserVars, fallbackVars, temp_scripts>>

\* main, lines 760-764: run_scan returned, main returns and the process ends
MainReturn ==
    /\ pc = "completed"
    /\ exit_code' = 0
    /\ pc' = "exited"
    /\ UNCHANGED <<args_mode, SCAN_MODE, github_event, github_base_ref, repo_path, tree,
                   pattern, git_diff, mode_chosen, located, html_files, idx, phase, proc,
                   primary, fallback_ran, current, returned, results, report_written,
                   report_json, attempts>>
    /\ UNCHANGED <<reportVars, browserVars, fallbackVars, temp_scripts>>

\* main, lines 765-766: KeyboardInterrupt raised anywhere inside the try block
\* is caught, a warning is printed, main returns and the process ends
MainKeyboardInterrupt ==
    /\ pc \in {"start", "locate", "scan", "json_report", "html_report", "completed"}
    /\ interrupted' = TRUE
    /\ exit_code' = 0
    /\ pc' = "exited"
    /\ UNCHANGED <<args_mode, SCAN_MODE, github_event, github_base_ref, repo_path, tree,
                   pattern, git_diff, mode_chosen, located, html_files, idx, phase, proc,
                   primary, fallback_ran, current, returned, results, report_written,
                   report_json, attempts, repo_name, html_written, report_html>>
    /\ UNCHANGED <<browserVars, fallbackVars, temp_scripts>>

\* main, lines 767-771: an exception reached the top level
MainExcept ==
    /\ pc = "raised"
    /\ exit_code' = 1
    /\ pc' = "exited"
    /\ UNCHANGED <<args_mode, SCAN_MODE, github_event, github_base_ref, repo_path, tree,
                   pattern, git_diff, mode_chosen, located, html_files, idx, phase, proc,
                   primary, fallback_ran, current, returned, results, report_written,
                   report_json, attempts>>
    /\ UNCHANGED <<reportVars, browserVars, fallbackVars, temp_scripts>>

programVars ==
    <<pc, args_mode, SCAN_MODE, github_event, github_base_ref, repo_path, tree, pattern,
      git_diff, mode_chosen, located, html_files, idx, phase, proc, primary, fallback_ran,
      current, returned, results, report_written, report_json, exit_code, attempts,
      temp_scripts, reportVars>>

filesPerPage == 10

\* Math.ceil(fileSections.length / filesPerPage)
PageCount == (fileSections + filesPerPage - 1) \div filesPerPage

\* mutant: the upper end of the page is included
Visible_UpperIncluded(index, page) ==
    index >= page * filesPerPage /\ index <= (page + 1) * filesPerPage

\* line 454: whether the section at index is shown on page
Visible(index, page) ==
    index >= page * filesPerPage /\ index < (page + 1) * filesPerPage

\* line 458
NextDisabled(page) == page = PageCount - 1

\* showPage(page), lines 452-459
showPage(page) ==
    /\ display' = [i \in 1..fileSections |-> Visible(i - 1, page)]
    /\ prevBtn_disabled' = (page = 0)
    /\ nextBtn_disabled' = NextDisabled(page)

\* lines 446-480: the script runs when the report is opened
LoadReport ==
    /\ ~ page_loaded
    /\ page_loaded' = TRUE
    /\ currentPage' = 0
    /\ showPage(0)
    /\ UNCHANGED <<fileSections, programVars, fallbackVars>>

\* a click on Previous, which a disabled button does not take: prevPage()
prevPage ==
    /\ page_loaded
    /\ ~ prevBtn_disabled
    /\ IF currentPage > 0
       THEN /\ currentPage' = currentPage - 1
            /\ showPage(currentPage - 1)
       ELSE UNCHANGED <<currentPage, display, prevBtn_disabled, nextBtn_disabled>>
    /\ UNCHANGED <<page_loaded, fileSections, programVars, fallbackVars>>

\* a click on Next, which a disabled button does not take: nextPage()
nextPage ==
    /\ page_loaded
    /\ ~ nextBtn_disabled
    /\ IF currentPage < PageCount - 1
       THEN /\ currentPage' = currentPage + 1
            /\ showPage(currentPage + 1)
       ELSE UNCHANGED <<currentPage, display, prevBtn_disabled, nextBtn_disabled>>
    /\ UNCHANGED <<page_loaded, fileSections, programVars, fallbackVars>>

\* scan_html_with_alternative_method on the document, read without an error
AlternativeScan ==
    /\ alternative_result = NoValue
    /\ alternative_result' =
           scan_html_with_alternative_method(repo_path \o tree[1],
                                             ReadOf(TRUE, DocText(document), <<>>))
    /\ UNCHANGED <<document, programVars, browserVars>>

Modes == {"auto", "all", "affected"}
Events == {"", "push", "pull_request"}
BaseRefs == {"", "main"}

\* whole runs on small repositories
Init ==
    InitWith({Root_repo}, Prefixes(SmallListing, MaxSmallTree), {Ext_html},
             {"all", "affected"}, {"push"}, {"main"}, GitOutcomesSmall)

Next ==
    \/ Main
    \/ Locate
    \/ PrimaryAttempt(ProcOutcomes)
    \/ Dispatch(ReadOutcomes)
    \/ StoreResult
    \/ GenerateJsonReport
    \/ GenerateHtmlReport
    \/ MainReturn
    \/ MainKeyboardInterrupt
    \/ MainExcept

Spec == Init /\ [][Next]_vars

\* whole runs on repositories whose paths hold characters the report treats
\* specially, under every outcome of git remote
InitReport ==
    /\ InitProgram({Root_repo, Root_quote}, Prefixes(ReportListing, Len(ReportListing)),
                   {Ext_html}, {"all"}, {"push"}, {"main"}, {GitRun("exit", 0, <<>>)},
                   RemoteOutcomes)
    /\ BrowserClosed({0})
    /\ FallbackIdle({NoDocument})

NextReport ==
    \/ Main
    \/ Locate
    \/ PrimaryAttempt(ProcOutcomesReport)
    \/ Dispatch(ReadOutcomesClean)
    \/ StoreResult
    \/ GenerateJsonReport
    \/ GenerateHtmlReport
    \/ MainReturn

SpecReport == InitReport /\ [][NextReport]_vars

\* the report's script in a browser, for reports of every number of sections
InitPage ==
    /\ InitProgram({Root_repo}, {<<>>}, {Ext_html}, {"all"}, {"push"}, {"main"},
                   {GitRun("exit", 0, <<>>)}, {NoRemote})
    /\ BrowserClosed(0..MaxSections)
    /\ FallbackIdle({NoDocument})

NextPage ==
    \/ LoadReport
    \/ prevPage
    \/ nextPage

SpecPage == InitPage /\ [][NextPage]_vars

\* the fallback heuristic alone, on every document of DocShapes
InitFallback ==
    /\ InitProgram({Root_repo}, {<<SmallListing[1]>>}, {Ext_html}, {"all"}, {"push"}, {"main"},
                   {GitRun("exit", 0, <<>>)}, {NoRemote})
    /\ BrowserClosed({0})
    /\ FallbackIdle(DocShapes)

NextFallback == AlternativeScan

SpecFallback == InitFallback /\ [][NextFallback]_vars

\* the locator alone, on every repository, environment and git outcome
InitLocate ==
    InitWith({Root_repo, Root_www, Root_portfolios}, Prefixes(TreeListing, Len(TreeListing)),
             {Ext_html, Ext_ts}, Modes, Events, BaseRefs, GitOutcomes)

NextLocate ==
    \/ Main
    \/ Locate

SpecLocate == InitLocate /\ [][NextLocate]_vars

\* repositories up to and beyond the file limit, every primary scan succeeding
InitLimit ==
    InitWith({Root_repo}, LimitTrees, {Ext_html}, {"all"}, {"push"}, {"main"},
             {GitRun("exit", 0, <<>>)})

NextLimit ==
    \/ Main
    \/ Locate
    \/ ScanAll(ProcOutcomesSucceeding, ReadOutcomesClean)
    \/ GenerateJsonReport

SpecLimit == InitLimit /\ [][NextLimit]_vars

(***************************************************************************)
(* Properties                                                              *)
(***************************************************************************)

Reverse(s) == [k \in 1..Len(s) |-> s[Len(s) + 1 - k]]

LocateDone == pc \notin {"start", "locate"}
ScanLoopDone == pc \in {"json_report", "html_report"}

\* the number of items of the results mapping under the key of html_file
EntriesFor(html_file) ==
    Cardinality({k \in 1..Len(results) : results[k][1] = ResultKey(repo_path, html_file)})

\* C1 as stated: after run_scan's loop every located file has exactly one entry
\* in results, and results has as many entries as the locator returned files.
C1_EveryLocatedFileHasEntry ==
    ScanLoopDone =>
        /\ Len(results) = Len(located)
        /\ \A i \in 1..Len(located) : EntriesFor(located[i]) = 1

\* C1 amended: after run_scan's loop each of the first FILE_LIMITS["html"] located
\* files has exactly one entry in results, no other file has one, and results
\* has min(number located, FILE_LIMITS["html"]) entries.
C1_FirstLimitFilesHaveEntry ==
    ScanLoopDone =>
        /\ Len(results) = Min(Len(located), FILE_LIMITS_html)
        /\ \A i \in 1..Len(located) :
               EntriesFor(located[i]) = IF i <= FILE_LIMITS_html THEN 1 ELSE 0

C1_Witness ==
    /\ ScanLoopDone
    /\ Len(located) > FILE_LIMITS_html
    /\ Len(results) = FILE_LIMITS_html

\* C2 as stated: scan_html_file never raises, whatever the subprocess printed,
\* so run_scan is never aborted by the scan of a file.
C2_ScanNeverRaises == pc # "raised"

\* the failure conditions of the primary scan: exception, timeout, non-zero
\* exit, empty output, malformed JSON
PrimaryFailed(p) ==
    \/ p.kind \in {"write_error", "launch_error", "timeout"}
    \/ /\ p.kind = "exit"
       /\ \/ p.returncode # 0
          \/ Strip(p.stdout) = <<>>
          \/ ~ json_loads(p.stdout)[1]

\* exit code 0 and non-empty well-formed JSON on stdout
PrimarySucceeded(p) ==
    /\ p.kind = "exit"
    /\ p.returncode = 0
    /\ Strip(p.stdout) # <<>>
    /\ json_loads(p.stdout)[1]

\* C3: when the primary scan of a file failed, scan_html_file ran the fallback
\* on that file and returns the fallback's result, a dict and never null.
C3_FailureThenFallback ==
    (pc = "scan" /\ phase = "done" /\ PrimaryFailed(proc)) =>
        /\ fallback_ran
        /\ current # JNull
        /\ Tag(current) = "obj"
        /\ \E rd \in ReadOutcomes :
               current = scan_html_with_alternative_method(html_files[idx + 1], rd)

C3_Witness ==
    /\ pc = "scan"
    /\ phase = "done"
    /\ proc.kind = "timeout"
    /\ fallback_ran
    /\ HasKey(Val(current), Key.violations)

\* C4 as stated: a primary attempt that exits 0 with non-empty well-formed JSON
\* is returned as the file's result and the fallback does not run.
C4_FallbackOnlyOnFailure ==
    (pc = "scan" /\ phase = "done" /\ PrimarySucceeded(proc)) =>
        /\ ~ fallback_ran
        /\ current = json_loads(proc.stdout)[2]

\* the mode the claim gives for an override and an environment
ClaimedMode(override, event) ==
    CASE override = "all" -> "full"
      [] override = "affected" -> "changed"
      [] OTHER -> IF event = "pull_request" THEN "changed" ELSE "full"

\* C5: get_affected_files runs the scan the override names when one is set, and
\* otherwise a changed-only scan for a pull_request event and a full scan for
\* every other environment.
C5_ModeSelection ==
    LocateDone =>
        /\ mode_chosen = ClaimedMode(args_mode, github_event)
        /\ located = IF ClaimedMode(args_mode, github_event) = "full"
                     THEN find_files(repo_path, tree, pattern)
                     ELSE get_changed_files(repo_path, tree, pattern, git_diff)

\* the override wins over the environment, and the two scans differ
C5_Witness ==
    /\ LocateDone
    /\ args_mode = "all"
    /\ github_event = "pull_request"
    /\ mode_chosen = "full"
    /\ located # get_changed_files(repo_path, tree, pattern, git_diff)

GitFailed(d) == d.kind \in {"oserror", "timeout"} \/ d.returncode # 0

\* C6: when the git diff step fails, the changed-only scan returns what
\* find_files returns for the pattern, and run_scan goes on.
C6_DiffFailureGivesFullScan ==
    (LocateDone /\ mode_chosen = "changed" /\ GitFailed(git_diff)) =>
        /\ located = find_files(repo_path, tree, pattern)
        /\ pc \in {"scan", "json_report"}

C6_Witness ==
    /\ LocateDone
    /\ mode_chosen = "changed"
    /\ git_diff.kind = "timeout"
    /\ Len(located) >= 2

NotExcludedWith(patterns, dirs, files) ==
    SelectSeq(files, LAMBDA f : ~ ShouldExcludeWith(patterns, dirs, f))

\* C7: no located file has a path segment equal to an excluded directory name
\* or a file name matching an excluded pattern; filtering the located list
\* again, with the exclusion lists in either order, leaves it unchanged.
C7_NoExcludedFileLocated ==
    LocateDone =>
        /\ \A i \in 1..Len(located) :
               /\ \A p \in 1..Len(located[i]) :
                      \A k \in 1..Len(EXCLUDE_DIRS) : located[i][p] # EXCLUDE_DIRS[k]
               /\ \A k \in 1..Len(EXCLUDE_FILE_PATTERNS) :
                      ~ fnmatch(FileName(located[i]), EXCLUDE_FILE_PATTERNS[k])
        /\ NotExcludedWith(EXCLUDE_FILE_PATTERNS, EXCLUDE_DIRS, located) = located
        /\ NotExcludedWith(Reverse(EXCLUDE_FILE_PATTERNS), Reverse(EXCLUDE_DIRS), located)
               = located

\* a changed file below an excluded directory was dropped, another was kept
C7_Witness ==
    /\ LocateDone
    /\ mode_chosen = "changed"
    /\ git_diff.kind = "exit"
    /\ git_diff.returncode = 0
    /\ ChangedListing[3] \in Range(git_diff.stdout)
    /\ TreeListing[2] \in Range(tree)
    /\ Len(located) >= 1

\* the files the claim says find_files returns
ClaimedFullScan ==
    {repo_path \o tree[k] : k \in
        {j \in 1..Len(tree) :
            LET full == repo_path \o tree[j]
            IN  /\ fnmatch(FileName(full), <<"*">> \o pattern)
                /\ \A p \in 1..(Len(full) - 1) : full[p] \notin Range(EXCLUDE_DIRS)
                /\ \A q \in 1..Len(EXCLUDE_FILE_PATTERNS) :
                       ~ fnmatch(FileName(full), EXCLUDE_FILE_PATTERNS[q])}}

\* C8 as stated: find_files returns exactly the matching files that are in no
\* excluded directory and match no excluded file pattern.
C8_FindFilesExact ==
    (LocateDone /\ mode_chosen = "full") => Range(located) = ClaimedFullScan

\* the paths the git diff listed
ChangedPaths == {PathJoin(repo_path, git_diff.stdout[k]) : k \in 1..Len(git_diff.stdout)}

\* C9 as stated: when git diff succeeds, get_changed_files returns the files
\* find_files returns that are also listed by the diff.
C9_ChangedIsIntersection ==
    (LocateDone /\ mode_chosen = "changed" /\ ~ GitFailed(git_diff)) =>
        Range(located) = Range(find_files(repo_path, tree, pattern)) \cap ChangedPaths

\* C10: report.json parses back to the results mapping; its keys are the
\* relative paths of the scanned files, each once, and each key maps to the
\* value scan_html_file returned for that file.
C10_JsonReportIsResults ==
    report_written =>
        /\ json_loads(report_json) = <<TRUE, JObj(results)>>
        /\ Len(results) = Len(html_files)
        /\ \A i \in 1..Len(html_files) :
               /\ results[i][1] = PathStr(RelativeTo(html_files[i], repo_path))
               /\ EntriesFor(html_files[i]) = 1
        /\ results = returned

C10_Witness ==
    /\ report_written
    /\ Len(results) = 2
    /\ Tag(results[1][2]) = "arr"
    /\ HasKey(Val(results[2][2]), Key.violations)


\* the chunks of results_html that open the section of a file
Openings(file_path) ==
    SelectSeq(report_html.results_html,
              LAMBDA c : c.file_path = file_path /\ c.kind \in {"error", "findings", "clean"})

\* the entries a result carries under a key, none when it has no such list
EntriesUnder(value, key) ==
    IF Tag(value) = "obj" /\ HasKey(Val(value), key) /\ Tag(DictGet(Val(value), key, JNull)) = "arr"
    THEN Val(DictGet(Val(value), key, JNull))
    ELSE <<>>

\* the state the claim gives a result
ClaimedState(value) ==
    IF Tag(value) = "obj" /\ HasKey(Val(value), Key.error) THEN "error"
    ELSE IF Len(EntriesUnder(value, Key.violations)) = 0
            /\ Len(EntriesUnder(value, Key.incomplete)) = 0 THEN "clean"
    ELSE "findings"

FileSectionsOf(report) ==
    SelectSeq(report.results_html, LAMBDA c : c.kind \in {"error", "findings", "clean"})

\* C12 as stated: the renderer warns exactly when the number of rendered file
\* sections differs from the number of scanned files or the document has fewer
\* lines than the least plausible number; a report with one section per file
\* gives no warning.
C12_WarningOnlyOnMismatch ==
    html_written =>
        (report_html.warning <=>
            \/ Len(FileSectionsOf(report_html)) # Len(results)
            \/ report_html.html_lines < MinHtmlLines)


\* every text embedded in the file sections of the report
SlotsOf(report) ==
    UNION {Range(report.results_html[k].slots) : k \in 1..Len(report.results_html)}

\* C13 as stated: every input-derived text of report.html (paths, the element
\* ids and onclick arguments made from them, test ids, descriptions, help
\* links, code snippets, error messages, the repository name) is embedded as
\* html.escape of the input text, escaped exactly once.
C13_EveryTextEscapedOnce ==
    html_written =>
        /\ \A slot \in SlotsOf(report_html) : slot.emitted = html_escape(slot.source)
        /\ report_html.repo_name = html_escape(repo_name)
        /\ \A id \in report_html.test_ids : id = html_escape(id)


\* C14: when the locator returned no file, the report has total_files = 0 and
\* the panel explaining that no files were found, not the coverage panel; the
\* panel is shown only when the locator returned no file.
C14_NoFilesPanel ==
    html_written =>
        /\ Len(located) = 0 =>
               /\ report_html.total_files = 0
               /\ report_html.tests_executed_section = "no_files"
               /\ report_html.tests_executed_section # "coverage"
        /\ report_html.tests_executed_section = "no_files" => Len(located) = 0

\* an empty repository, and the report written for it
C14_Witness ==
    /\ html_written
    /\ Len(tree) = 0
    /\ Len(located) = 0
    /\ report_html.total_files = 0
    /\ report_html.tests_executed_section = "no_files"


\* C15 as stated: the process ends with exit code 0 exactly when the scan and
\* both reports completed, and with a non-zero exit code when an exception
\* reached the top level and when the user interrupted the run.
C15_ExitCodes ==
    pc = "exited" =>
        /\ exit_code = 0 <=> (idx = Len(html_files) /\ report_written /\ html_written)
        /\ interrupted => exit_code # 0


\* the ids of the violations a fallback result lists, in order
ViolationIds(value) ==
    LET entries == EntriesUnder(value, Key.violations)
    IN  [k \in 1..Len(entries) |-> Val(DictGet(Val(entries[k]), Key.id, JStr(<<>>)))]

CountOf(ids, id) == Cardinality({k \in 1..Len(ids) : ids[k] = id})

\* C16 as stated: the fallback reports one image-alt violation per img element
\* without an alt attribute, html-has-lang when the html root element has no
\* lang attribute, and document-title exactly when the document has no title
\* element; the document with a title, no lang attribute and one img without
\* alt gets exactly image-alt and html-has-lang.
C16_FallbackHeuristic ==
    alternative_result # NoValue =>
        LET ids == ViolationIds(alternative_result)
        IN  /\ CountOf(ids, RuleStr.image_alt)
                 = Cardinality({k \in 1..Len(document.imgs) : ~ document.imgs[k]})
            /\ ~ document.lang => CountOf(ids, RuleStr.html_has_lang) = 1
            /\ CountOf(ids, RuleStr.document_title) = (IF document.title THEN 0 ELSE 1)
            /\ document = DocShape(FALSE, FALSE, TRUE, <<FALSE>>)
                 => ids = <<RuleStr.image_alt, RuleStr.html_has_lang>>


\* C17: once the script has run, and after any clicks on Next and Previous,
\* the sections shown are exactly those with index in [10 * p, 10 * p + 10)
\* for the current page p; the script's condition shows every section on
\* exactly one of the pages 0 .. ceil(n / 10) - 1; and with at least one
\* section p is one of these pages.
C17_PageShowsItsTen ==
    page_loaded =>
        /\ Len(display) = fileSections
        /\ \A i \in 1..fileSections :
               display[i] <=> (10 * currentPage <= i - 1 /\ i - 1 < 10 * currentPage + 10)
        /\ \A i \in 1..fileSections :
               Cardinality({p \in 0..(PageCount - 1) : Visible(i - 1, p)}) = 1
        /\ fileSections >= 1 =>
               currentPage \in 0..((fileSections + 9) \div 10 - 1)

\* a report of several pages, the last one partly filled, clicked through to
\* its third page or further
C17_Witness ==
    /\ page_loaded
    /\ currentPage >= 2
    /\ fileSections % 10 # 0
    /\ \E i \in 1..fileSections : display[i]

\* C20 as stated: for every number of sections, zero included, and after any
\* clicks, Previous is disabled exactly when there is no previous page and
\* Next is disabled exactly when no section lies beyond the current page.
C20_ButtonsDisabledAtEnds ==
    page_loaded =>
        /\ prevBtn_disabled <=> currentPage = 0
        /\ nextBtn_disabled <=> ~ (\E i \in 1..fileSections : i - 1 >= (currentPage + 1) * filesPerPage)


\* C18 as stated: per file, the primary scan is attempted exactly once, the
\* fallback at most once and only after the primary attempt, nothing is
\* retried, the primary attempt of a file starts only when every earlier file
\* is done, and a run that ends without being interrupted has brought every
\* file to done.
C18_PerFileStateMachine ==
    /\ \A k \in 1..Len(attempts) :
           /\ attempts[k][1] <= 1
           /\ attempts[k][2] <= attempts[k][1]
           /\ k <= idx => attempts[k][1] = 1
           /\ attempts[k][1] > 0 => k <= idx + 1
    /\ (pc \in {"raised", "exited"} /\ ~ interrupted) => idx = Len(html_files)


\* the id attribute of the collapsible element of a file section
ElementIdOf(chunk) ==
    {slot.emitted : slot \in {x \in Range(chunk.slots) : x.field = "element_id"}}

\* the argument of toggleSection in the header of a file section
OnclickOf(chunk) ==
    {slot.emitted : slot \in {x \in Range(chunk.slots) : x.field = "onclick"}}

\* C19 as stated: the sections of distinct scanned paths have distinct ids, so
\* the header of one file toggles the element of that file and of no other,
\* also for paths that differ only in '/', '.', ' ' and '_'.
C19_DistinctSectionIds ==
    html_written =>
        LET sections == FileSectionsOf(report_html)
        IN  \A a, b \in 1..Len(sections) :
                sections[a].file_path # sections[b].file_path =>
                    /\ ElementIdOf(sections[a]) \cap ElementIdOf(sections[b]) = {}
                    /\ OnclickOf(sections[a]) \cap ElementIdOf(sections[b]) = {}


\* C21 as stated: whenever scan_html_with_puppeteer_axe has returned, whether
\* the subprocess succeeded, exited non-zero, timed out or failed to start,
\* the temporary script it wrote has been deleted, so that no temporary script
\* lies in the repository after any number of scanned files.
C21_NoTempScriptRemains ==
    (phase = "primary_attempted" \/ idx > 0 \/ pc \in {"raised", "exited"}) => temp_scripts = 0

====
